---- MODULE Spec2Model ----
(***************************************************************************)
(* Model of dlfa/data/text_instance.py: the line-record reader of          *)
(* TrueFalseInstance, the shift-reduce linearizer of LogicalFormInstance,  *)
(* BackgroundInstance, QuestionInstance, and the padding contract of the   *)
(* indexed text instance.                                                  *)
(*                                                                         *)
(* Python's Optional values are modelled as sequences of length at most 1: *)
(* None is <<>> and a present value v is <<v>>.  Strings that are          *)
(* inspected character by character (lines, sentences) are sequences of    *)
(* one-character strings; logical-form tokens are atomic strings.          *)
(***************************************************************************)
EXTENDS Integers, Sequences, FiniteSets, TLC

VARIABLES
    \* LogicalFormInstance.to_indexed_instance
    tokens, pos, last_symbols, last_symbol, transitions, elements, is_malformed,
    lf_pc, lf_result,
    \* TrueFalseInstance.read_from_line
    line, default_label, rfl_result,
    \* QuestionInstance.__init__
    options, q_result,
    \* IndexedTrueFalseInstance.pad
    word_indices, requested,
    \* BackgroundInstance
    instance_text, background, bg_words, bg_indexed

lf_vars == <<tokens, pos, last_symbols, last_symbol, transitions, elements, is_malformed,
            lf_pc, lf_result>>
rfl_vars == <<line, default_label, rfl_result>>
q_vars == <<options, q_result>>
pad_vars == <<word_indices, requested>>
bg_vars == <<instance_text, background, bg_words, bg_indexed>>
vars == <<lf_vars, rfl_vars, q_vars, pad_vars, bg_vars>>

\* What each component's operations leave alone: the other components.
not_lf == <<rfl_vars, q_vars, pad_vars, bg_vars>>
not_rfl == <<lf_vars, q_vars, pad_vars, bg_vars>>
not_q == <<lf_vars, rfl_vars, pad_vars, bg_vars>>
not_pad == <<lf_vars, rfl_vars, q_vars, bg_vars>>
not_bg == <<lf_vars, rfl_vars, q_vars, pad_vars>>

None == <<>>
Some(v) == <<v>>

\* All sequences over S of length at most n.
SeqsUpTo(S, n) == UNION {[1..k -> S] : k \in 0..n}

Last(s) == s[Len(s)]
ButLast(s) == SubSeq(s, 1, Len(s) - 1)

----------------------------------------------------------------------------
(* Bounds *)

MaxTokens == 6
MaxLineLen == 5
MaxTextLen == 2
MaxIndex == 11
MaxOptions == 3
MaxWords == 4
MaxPad == 5
MaxSentLen == 3
MaxBackground == 2

----------------------------------------------------------------------------
(* Vocabulary indexer (external collaborator): a known word maps to its own *)
(* index, an unseen word to the reserved unknown-word index.                *)

PaddingIndex == 0
OovIndex == 1

get_word_index(vocab, word) ==
    IF \E i \in 1..Len(vocab) : vocab[i] = word
    THEN OovIndex + (CHOOSE i \in 1..Len(vocab) : vocab[i] = word)
    ELSE OovIndex

IndexAll(vocab, words) == [i \in 1..Len(words) |-> get_word_index(vocab, words[i])]

----------------------------------------------------------------------------
(* LogicalFormInstance.to_indexed_instance: the shift-reduce linearizer.    *)

SHIFT_OP == "S"
REDUCE2_OP == "R2"
REDUCE3_OP == "R3"

Predicates == {"a", "b"}
Structural == {",", "(", ")"}
LFVocab == <<"a", "b", "c", "d", "e">>

\* tokens() of the docstring's example "a(b(c), d(e, f))".
ExampleTokens ==
    <<"a", "(", "b", "(", "c", ")", ",", "d", "(", "e", ",", "f", ")", ")">>

LFInit ==
    /\ tokens \in SeqsUpTo(Predicates \cup Structural, MaxTokens) \cup {ExampleTokens}
    /\ pos = 1
    /\ last_symbols = <<>>
    /\ last_symbol = None
    /\ transitions = <<>>
    /\ elements = <<>>
    /\ is_malformed = FALSE
    /\ lf_pc = "loop"
    /\ lf_result = [kind |-> "running"]

InLoop == lf_pc = "loop" /\ pos <= Len(tokens)

ScanComma ==
    /\ InLoop
    /\ tokens[pos] = ","
    /\ last_symbols' = Append(last_symbols, tokens[pos])
    /\ pos' = pos + 1
    /\ UNCHANGED <<tokens, last_symbol, transitions, elements, is_malformed, lf_pc, lf_result>>
    /\ UNCHANGED not_lf

ScanOpen ==
    /\ InLoop
    /\ tokens[pos] = "("
    /\ last_symbols' = Append(last_symbols, tokens[pos])
    /\ pos' = pos + 1
    /\ UNCHANGED <<tokens, last_symbol, transitions, elements, is_malformed, lf_pc, lf_result>>
    /\ UNCHANGED not_lf

\* The body of the `elif token == ')'` branch once the stack is non-empty,
\* with the two reduce operations exchanged.
CloseNonEmpty_mut ==
    LET top == Last(last_symbols)
        popped == ButLast(last_symbols)
    IN  /\ last_symbol' = Some(top)
        /\ IF top = "("
           THEN /\ last_symbols' = popped
                /\ transitions' = Append(transitions, REDUCE3_OP)
                /\ pos' = pos + 1
                /\ UNCHANGED <<lf_pc, lf_result>>
           ELSE IF Len(popped) = 0
                THEN /\ last_symbols' = popped
                     /\ lf_pc' = "done"
                     /\ lf_result' = [kind |-> "IndexError"]
                     /\ UNCHANGED <<transitions, pos>>
                ELSE /\ last_symbols' = ButLast(popped)
                     /\ transitions' = Append(transitions, REDUCE2_OP)
                     /\ pos' = pos + 1
                     /\ UNCHANGED <<lf_pc, lf_result>>

\* The body of the `elif token == ')'` branch once the stack is non-empty:
\* last_symbol = last_symbols.pop(); on '(' emit REDUCE2; otherwise pop
\* again (list.pop() of an empty list raises IndexError, which leaves the
\* method) and emit REDUCE3.
CloseNonEmpty ==
    LET top == Last(last_symbols)
        popped == ButLast(last_symbols)
    IN  /\ last_symbol' = Some(top)
        /\ IF top = "("
           THEN /\ last_symbols' = popped
                /\ transitions' = Append(transitions, REDUCE2_OP)
                /\ pos' = pos + 1
                /\ UNCHANGED <<lf_pc, lf_result>>
           ELSE IF Len(popped) = 0
                THEN /\ last_symbols' = popped
                     /\ lf_pc' = "done"
                     /\ lf_result' = [kind |-> "IndexError"]
                     /\ UNCHANGED <<transitions, pos>>
                ELSE /\ last_symbols' = ButLast(popped)
                     /\ transitions' = Append(transitions, REDUCE3_OP)
                     /\ pos' = pos + 1
                     /\ UNCHANGED <<lf_pc, lf_result>>

ScanClose ==
    /\ InLoop
    /\ tokens[pos] = ")"
    /\ IF Len(last_symbols) = 0
       THEN /\ is_malformed' = TRUE
            /\ lf_pc' = "check"
            /\ UNCHANGED <<tokens, pos, last_symbols, last_symbol, transitions, elements,
                           lf_result>>
       ELSE /\ CloseNonEmpty
            /\ UNCHANGED <<tokens, elements, is_malformed>>
    /\ UNCHANGED not_lf

ScanShift ==
    /\ InLoop
    /\ tokens[pos] \notin Structural
    /\ transitions' = Append(transitions, SHIFT_OP)
    /\ elements' = Append(elements, tokens[pos])
    /\ pos' = pos + 1
    /\ UNCHANGED <<tokens, last_symbols, last_symbol, is_malformed, lf_pc, lf_result>>
    /\ UNCHANGED not_lf

\* After the loop (exhausted, or left by break): the malformed check, then
\* the indexing of the collected elements.
PostScan ==
    /\ lf_pc = "check" \/ (lf_pc = "loop" /\ pos > Len(tokens))
    /\ lf_pc' = "done"
    /\ lf_result' =
          IF Len(last_symbols) # 0 \/ is_malformed
          THEN [kind |-> "RuntimeError",
                message |-> "Malformed binary semantic parse",
                text |-> tokens]
          ELSE [kind |-> "IndexedLogicalFormInstance",
                indices |-> IndexAll(LFVocab, elements),
                transitions |-> transitions]
    /\ UNCHANGED <<tokens, pos, last_symbols, last_symbol, transitions, elements,
                   is_malformed>>
    /\ UNCHANGED not_lf

----------------------------------------------------------------------------
(* TrueFalseInstance.read_from_line and the helpers it calls.               *)

TAB == "\t"
DigitChars == <<"0", "1", "2", "3", "4", "5", "6", "7", "8", "9">>
Digits == {DigitChars[i] : i \in 1..Len(DigitChars)}
TextAlphabet == {"a", "0", "1", "2"}
LineAlphabet == TextAlphabet \cup {TAB}
Labels == {None, Some(TRUE), Some(FALSE)}

\* str.split("\t"): the maximal tab-free pieces, empty ones kept; always at
\* least one field.
RECURSIVE split_from(_, _, _, _)
split_from(s, i, cur, acc) ==
    IF i > Len(s) THEN Append(acc, cur)
    ELSE IF s[i] = TAB THEN split_from(s, i + 1, <<>>, Append(acc, cur))
    ELSE split_from(s, i + 1, Append(cur, s[i]), acc)

split(s) == split_from(s, 1, <<>>, <<>>)

\* str.isdecimal(): non-empty and every character a decimal digit.
isdecimal(s) == Len(s) > 0 /\ \A i \in 1..Len(s) : s[i] \in Digits

digit_value(c) == (CHOOSE i \in 1..Len(DigitChars) : DigitChars[i] = c) - 1

\* The digits read from the wrong end.
RECURSIVE int_mut(_)
int_mut(s) == IF Len(s) = 0 THEN 0 ELSE int_mut(Tail(s)) * 10 + digit_value(Head(s))

\* int(s) of a decimal string: base-10 value, leading zeros ignored.
RECURSIVE int(_)
int(s) == IF Len(s) = 0 THEN 0 ELSE int(ButLast(s)) * 10 + digit_value(Last(s))

\* Over LineAlphabet, int(s) raises ValueError exactly when s is not decimal.
int_raises(s) == ~isdecimal(s)

\* str(n) of a non-negative integer.
RECURSIVE str(_)
str(n) == IF n < 10 THEN <<DigitChars[n + 1]>>
          ELSE str(n \div 10) \o <<DigitChars[(n % 10) + 1]>>

\* The test helper instance_to_line(text, label, index).
instance_to_line(text, label, index) ==
    LET l1 == IF index # None THEN str(index[1]) \o <<TAB>> ELSE <<>>
        l2 == l1 \o text
    IN  IF label # None
        THEN l2 \o <<TAB>> \o (IF label[1] THEN <<"1">> ELSE <<"0">>)
        ELSE l2

\* Every label string but '0' taken as true.
label_of_mut(label_string) == label_string # <<"0">>

\* label = label_string == '1'
label_of(label_string) == label_string = <<"1">>

\* Instance._check_label(label, default_label): TRUE when it returns, FALSE
\* when it raises.
check_label(label, default) ==
    ~(default # None /\ label # None /\ label # default)

TrueFalseInstance(text, label, index) ==
    [kind |-> "TrueFalseInstance", text |-> text, label |-> label, index |-> index]

LabelMismatchError == [kind |-> "RuntimeError", message |-> "label mismatch"]
FormatError(ln) ==
    [kind |-> "RuntimeError", message |-> "Unrecognized line format: ", line |-> ln]
ValueError == [kind |-> "ValueError"]

\* read_from_line with the two 2-field tests in the other order.
read_from_line_mut(ln, default) ==
    LET fields == split(ln)
    IN  IF Len(fields) = 3 THEN
            LET label == Some(label_of(fields[3]))
            IN  IF ~check_label(label, default) THEN LabelMismatchError
                ELSE IF int_raises(fields[1]) THEN ValueError
                ELSE TrueFalseInstance(fields[2], label, Some(int(fields[1])))
        ELSE IF Len(fields) = 2 THEN
            IF isdecimal(fields[2]) THEN
                LET label == Some(label_of(fields[2]))
                IN  IF ~check_label(label, default) THEN LabelMismatchError
                    ELSE TrueFalseInstance(fields[1], label, None)
            ELSE IF isdecimal(fields[1]) THEN
                IF ~check_label(None, default) THEN LabelMismatchError
                ELSE TrueFalseInstance(fields[2], default, Some(int(fields[1])))
            ELSE FormatError(ln)
        ELSE IF Len(fields) = 1 THEN
            IF ~check_label(None, default) THEN LabelMismatchError
            ELSE TrueFalseInstance(fields[1], default, None)
        ELSE FormatError(ln)

\* The value read_from_line returns, or the exception it raises.
read_from_line(ln, default) ==
    LET fields == split(ln)
    IN  IF Len(fields) = 3 THEN
            LET label == Some(label_of(fields[3]))
            IN  IF ~check_label(label, default) THEN LabelMismatchError
                ELSE IF int_raises(fields[1]) THEN ValueError
                ELSE TrueFalseInstance(fields[2], label, Some(int(fields[1])))
        ELSE IF Len(fields) = 2 THEN
            IF isdecimal(fields[1]) THEN
                IF ~check_label(None, default) THEN LabelMismatchError
                ELSE TrueFalseInstance(fields[2], default, Some(int(fields[1])))
            ELSE IF isdecimal(fields[2]) THEN
                LET label == Some(label_of(fields[2]))
                IN  IF ~check_label(label, default) THEN LabelMismatchError
                    ELSE TrueFalseInstance(fields[1], label, None)
            ELSE FormatError(ln)
        ELSE IF Len(fields) = 1 THEN
            IF ~check_label(None, default) THEN LabelMismatchError
            ELSE TrueFalseInstance(fields[1], default, None)
        ELSE FormatError(ln)

Texts == SeqsUpTo(TextAlphabet, MaxTextLen)
Indexes == {None} \cup {Some(n) : n \in 0..MaxIndex}
EncodedLines == {instance_to_line(t, l, i) : t \in Texts, l \in Labels, i \in Indexes}

RFLInit ==
    /\ line \in SeqsUpTo(LineAlphabet, MaxLineLen) \cup EncodedLines
    /\ default_label \in Labels
    /\ rfl_result = [kind |-> "pending"]

ReadFromLine ==
    /\ rfl_result.kind = "pending"
    /\ rfl_result' = read_from_line(line, default_label)
    /\ UNCHANGED <<line, default_label>>
    /\ UNCHANGED not_rfl

----------------------------------------------------------------------------
(* QuestionInstance.__init__                                                *)

Tokenizers == {"default", "other"}
Option(label, tokenizer) == [label |-> label, tokenizer |-> tokenizer]
AllOptions == {Option(l, t) : l \in Labels, t \in Tokenizers}

\* [index for index, instance in enumerate(options) if instance.label is True]
RECURSIVE positive_index_from(_, _)
positive_index_from(opts, i) ==
    IF i > Len(opts) THEN <<>>
    ELSE (IF opts[i].label = Some(TRUE) THEN <<i - 1>> ELSE <<>>)
         \o positive_index_from(opts, i + 1)

\* The same, with the assertion weakened to "at least one".
QuestionInstance_mut(opts) ==
    LET positive_index == positive_index_from(opts, 1)
    IN  IF Len(positive_index) < 1 THEN [kind |-> "AssertionError"]
        ELSE [kind |-> "QuestionInstance",
              options |-> opts,
              label |-> positive_index[1],
              index |-> None,
              tokenizer |-> Some(opts[1].tokenizer)]

\* The constructed instance, or the AssertionError of line 225.  The
\* tokenizer line runs only after the assertion, so options is non-empty.
QuestionInstance(opts) ==
    LET positive_index == positive_index_from(opts, 1)
    IN  IF Len(positive_index) # 1 THEN [kind |-> "AssertionError"]
        ELSE [kind |-> "QuestionInstance",
              options |-> opts,
              label |-> positive_index[1],
              index |-> None,
              tokenizer |-> IF Len(opts) > 0 THEN Some(opts[1].tokenizer) ELSE None]

QInit ==
    /\ options \in SeqsUpTo(AllOptions, MaxOptions)
    /\ q_result = [kind |-> "pending"]

QuestionInit ==
    /\ q_result.kind = "pending"
    /\ q_result' = QuestionInstance(options)
    /\ UNCHANGED options
    /\ UNCHANGED not_q

----------------------------------------------------------------------------
(* IndexedTrueFalseInstance.pad: left-pad with the padding index, drop the  *)
(* oldest (leftmost) indices.                                               *)

RECURSIVE left_pad(_, _)
left_pad(w, n) == IF Len(w) >= n THEN w ELSE left_pad(<<PaddingIndex>> \o w, n)

RECURSIVE drop_oldest(_, _)
drop_oldest(w, n) == IF Len(w) <= n THEN w ELSE drop_oldest(Tail(w), n)

\* Padding on the right and dropping the newest indices instead.
pad_mut(w, n) ==
    IF Len(w) >= n THEN SubSeq(w, 1, n)
    ELSE w \o [i \in 1..(n - Len(w)) |-> PaddingIndex]

pad(w, n) == left_pad(drop_oldest(w, n), n)

RealIndices == OovIndex..(OovIndex + MaxWords - 1)

PadInit ==
    /\ word_indices \in SeqsUpTo(RealIndices, MaxWords)
    /\ requested = None

PadTo(n) ==
    /\ word_indices' = pad(word_indices, n)
    /\ requested' = Some(n)
    /\ UNCHANGED not_pad

Pad == \E n \in 0..MaxPad : PadTo(n)

----------------------------------------------------------------------------
(* Tokenizer (external collaborator) and BackgroundInstance.                *)

SentenceAlphabet == {"A", " "}
BGVocab == << <<"a">>, <<"a", "a">> >>

lower_char(c) == IF c = "A" THEN "a" ELSE c
lower(s) == [i \in 1..Len(s) |-> lower_char(s[i])]

\* Tokenizer.tokenize: the maximal space-free pieces, in order.
RECURSIVE tokenize_from(_, _, _, _)
tokenize_from(s, i, cur, acc) ==
    IF i > Len(s) THEN (IF cur = <<>> THEN acc ELSE Append(acc, cur))
    ELSE IF s[i] = " "
         THEN tokenize_from(s, i + 1, <<>>, IF cur = <<>> THEN acc ELSE Append(acc, cur))
         ELSE tokenize_from(s, i + 1, Append(cur, s[i]), acc)

tokenize(s) == tokenize_from(s, 1, <<>>, <<>>)

\* TrueFalseInstance.words and TrueFalseInstance.to_indexed_instance
TrueFalseInstance_words(text) == tokenize(lower(text))

TrueFalseInstance_to_indexed(text) == IndexAll(BGVocab, TrueFalseInstance_words(text))

\* `for background_text in self.background: words.extend(...)` from the i-th.
RECURSIVE extend_words(_, _, _)
extend_words(words, bg, i) ==
    IF i > Len(bg) THEN words
    ELSE extend_words(words \o tokenize(lower(bg[i])), bg, i + 1)

\* words() that tokenizes the background sentences joined into one text.
RECURSIVE join_all(_, _)
join_all(bg, i) == IF i > Len(bg) THEN <<>> ELSE bg[i] \o join_all(bg, i + 1)

BackgroundInstance_words_mut(text, bg) ==
    TrueFalseInstance_words(text) \o tokenize(lower(join_all(bg, 1)))

BackgroundInstance_words(text, bg) ==
    extend_words(TrueFalseInstance_words(text), bg, 1)

\* The loop of to_indexed_instance from the i-th background sentence.
RECURSIVE append_indices(_, _, _)
append_indices(background_indices, bg, i) ==
    IF i > Len(bg) THEN background_indices
    ELSE append_indices(
             Append(background_indices, IndexAll(BGVocab, tokenize(lower(bg[i])))),
             bg, i + 1)

BackgroundInstance_to_indexed(text, bg) ==
    [indexed_instance |-> TrueFalseInstance_to_indexed(text),
     background_indices |-> append_indices(<<>>, bg, 1)]

InstanceTexts == {<<"A">>, <<"b", " ", "A", "a">>}

BGInit ==
    /\ instance_text \in InstanceTexts
    /\ background \in SeqsUpTo(SeqsUpTo(SentenceAlphabet, MaxSentLen), MaxBackground)
    /\ bg_words = None
    /\ bg_indexed = None

BackgroundWords ==
    /\ bg_words' = Some(BackgroundInstance_words(instance_text, background))
    /\ UNCHANGED <<instance_text, background, bg_indexed>>
    /\ UNCHANGED not_bg

BackgroundToIndexed ==
    /\ bg_indexed' = Some(BackgroundInstance_to_indexed(instance_text, background))
    /\ UNCHANGED <<instance_text, background, bg_words>>
    /\ UNCHANGED not_bg

----------------------------------------------------------------------------
(* Specifications: one per component, the others not instantiated.          *)

LFAbsent ==
    /\ tokens = <<>> /\ pos = 1 /\ last_symbols = <<>> /\ last_symbol = None
    /\ transitions = <<>>
    /\ elements = <<>> /\ is_malformed = FALSE /\ lf_pc = "absent"
    /\ lf_result = [kind |-> "absent"]
RFLAbsent == line = <<>> /\ default_label = None /\ rfl_result = [kind |-> "absent"]
QAbsent == options = <<>> /\ q_result = [kind |-> "absent"]
PadAbsent == word_indices = <<>> /\ requested = None
BGAbsent == instance_text = <<>> /\ background = <<>> /\ bg_words = None /\ bg_indexed = None

Init == LFInit /\ RFLAbsent /\ QAbsent /\ PadAbsent /\ BGAbsent
Next == ScanComma \/ ScanOpen \/ ScanClose \/ ScanShift \/ PostScan
Spec == Init /\ [][Next]_vars

ReaderInit == LFAbsent /\ RFLInit /\ QAbsent /\ PadAbsent /\ BGAbsent
ReaderNext == ReadFromLine
ReaderSpec == ReaderInit /\ [][ReaderNext]_vars

QuestionSpecInit == LFAbsent /\ RFLAbsent /\ QInit /\ PadAbsent /\ BGAbsent
QuestionNext == QuestionInit
QuestionSpec == QuestionSpecInit /\ [][QuestionNext]_vars

PadSpecInit == LFAbsent /\ RFLAbsent /\ QAbsent /\ PadInit /\ BGAbsent
PadNext == Pad
PadSpec == PadSpecInit /\ [][PadNext]_vars

BackgroundSpecInit == LFAbsent /\ RFLAbsent /\ QAbsent /\ PadAbsent /\ BGInit
BackgroundNext == BackgroundWords \/ BackgroundToIndexed
BackgroundSpec == BackgroundSpecInit /\ [][BackgroundNext]_vars

----------------------------------------------------------------------------
(* Properties of the linearizer (specification Spec).                       *)

IsWord(t) == t \notin Structural
Emits(t) == t \notin {",", "("}
Accepted == lf_pc = "done" /\ lf_result.kind = "IndexedLogicalFormInstance"
MalformedError ==
    [kind |-> "RuntimeError", message |-> "Malformed binary semantic parse", text |-> tokens]

\* C1: for an accepted token stream, elements is the subsequence of the
\* tokens other than ',', '(' and ')', and transitions holds, in token order,
\* one SHIFT per such token and one reduce per ')'; the reduce emitted for a
\* ')' is REDUCE2 when the symbol popped for it was '(' and REDUCE3 when it
\* was ','; the docstring's example gives [a..f] and [S,S,S,R2,S,S,S,R3,R3].
C1_Linearization ==
    /\ Accepted =>
          LET emitting == SelectSeq(tokens, Emits)
          IN  /\ elements = SelectSeq(tokens, IsWord)
              /\ lf_result.transitions = transitions
              /\ Len(transitions) = Len(emitting)
              /\ \A i \in 1..Len(emitting) :
                    IF emitting[i] = ")"
                    THEN transitions[i] \in {REDUCE2_OP, REDUCE3_OP}
                    ELSE transitions[i] = SHIFT_OP
    /\ (lf_pc = "loop" /\ pos > 1 /\ tokens[pos - 1] = ")") =>
          /\ last_symbol = Some("(") => Last(transitions) = REDUCE2_OP
          /\ last_symbol = Some(",") => Last(transitions) = REDUCE3_OP
          /\ last_symbol \in {Some("("), Some(",")}
    /\ (Accepted /\ tokens = ExampleTokens) =>
          /\ elements = <<"a", "b", "c", "d", "e", "f">>
          /\ transitions = <<SHIFT_OP, SHIFT_OP, SHIFT_OP, REDUCE2_OP, SHIFT_OP, SHIFT_OP,
                             SHIFT_OP, REDUCE3_OP, REDUCE3_OP>>

C1_Witness == Accepted /\ tokens = ExampleTokens /\ Len(transitions) = 9

\* C2: a call that has ended either returned an instance after a scan that
\* never popped an empty stack and left the stack empty, or failed with the
\* 'Malformed binary semantic parse' error naming the text; no other error
\* leaves the scan loop.
C2_OnlyMalformedError ==
    lf_pc = "done" =>
        \/ lf_result = MalformedError
        \/ Accepted /\ Len(last_symbols) = 0 /\ ~is_malformed

\* C9: whenever the scan is about to process a ')' with ',' on top of the
\* structural stack, the symbol under that ',' (the one the second pop
\* removes) exists and is '('.
C9_SecondPopIsOpener ==
    (InLoop /\ tokens[pos] = ")" /\ Len(last_symbols) > 0 /\ Last(last_symbols) = ",") =>
        /\ Len(last_symbols) >= 2
        /\ last_symbols[Len(last_symbols) - 1] = "("

\* The tree encoder's stack machine: the depth after running trans[i..] from
\* depth d, or -1 when a transition finds fewer items than it consumes.
RECURSIVE run_stack(_, _, _)
run_stack(trans, i, d) ==
    IF i > Len(trans) THEN d
    ELSE IF trans[i] = SHIFT_OP THEN run_stack(trans, i + 1, d + 1)
    ELSE IF trans[i] = REDUCE2_OP
         THEN (IF d < 2 THEN -1 ELSE run_stack(trans, i + 1, d - 1))
         ELSE (IF d < 3 THEN -1 ELSE run_stack(trans, i + 1, d - 2))

IsShift(t) == t = SHIFT_OP

\* C10: for an accepted token stream the transitions run on the encoder's
\* stack machine without underflow, and there are as many SHIFTs as elements.
C10_TransitionsRunnable ==
    Accepted =>
        /\ run_stack(lf_result.transitions, 1, 0) >= 0
        /\ Len(SelectSeq(lf_result.transitions, IsShift)) = Len(lf_result.indices)

----------------------------------------------------------------------------
(* Properties of read_from_line (specification ReaderSpec).                 *)

Read == rfl_result.kind # "pending"

\* The (text, label, index) triples, within the bounds, that encode the line;
\* a text that encodes it is a contiguous piece of it.
Pieces == {SubSeq(line, i, j) : i \in 1..(Len(line) + 1), j \in 0..Len(line)}
Encodings ==
    {e \in (Pieces \cap Texts) \X Labels \X Indexes :
        instance_to_line(e[1], e[2], e[3]) = line}

\* The one shape of the line format that is read back differently: no index,
\* a label, and a text that is purely decimal.
DecimalTextWithLabelOnly(e) == e[3] = None /\ e[2] # None /\ isdecimal(e[1])

\* C3 as stated: with no default label, every encoded (text, label, index)
\* is read back exactly.
C3_RoundTripAll ==
    (Read /\ default_label = None) =>
        \A e \in Encodings : rfl_result = TrueFalseInstance(e[1], e[2], e[3])

\* C3 as amended: with no default label, every encoded (text, label, index)
\* is read back exactly, except that a purely decimal text with a label and
\* no index is read as [index][text]: the text becomes the index, the label
\* character the text, and the label is absent.
C3_RoundTrip ==
    (Read /\ default_label = None) =>
        \A e \in Encodings :
            IF DecimalTextWithLabelOnly(e)
            THEN /\ rfl_result.kind = "TrueFalseInstance"
                 /\ rfl_result.index # None
                 /\ \E k \in 0..(Len(e[1]) - 1) :
                       e[1] = [i \in 1..k |-> "0"] \o str(rfl_result.index[1])
                 /\ rfl_result.text = (IF e[2][1] THEN <<"1">> ELSE <<"0">>)
                 /\ rfl_result.label = None
            ELSE rfl_result = TrueFalseInstance(e[1], e[2], e[3])

C3_Witness ==
    /\ Read /\ default_label = None
    /\ line = <<"1", "0", TAB, "a", "2", TAB, "0">>
    /\ rfl_result = TrueFalseInstance(<<"a", "2">>, Some(FALSE), Some(10))

\* Whether, and which, label the record encodes: the 3-field shape and the
\* 2-field [text][label] shape do.
EncodesLabel ==
    LET fields == split(line)
    IN  \/ Len(fields) = 3
        \/ Len(fields) = 2 /\ ~isdecimal(fields[1]) /\ isdecimal(fields[2])
EncodedLabel == LET fields == split(line) IN Some(fields[Len(fields)] = <<"1">>)

\* C4: when the record encodes a label and a non-absent default label differs
\* from it, the call fails with the label-mismatch error; otherwise a returned
\* instance carries the encoded label when there is one and the default label
\* (possibly absent) when there is none.
C4_LabelDerivation ==
    Read =>
        IF EncodesLabel /\ default_label # None /\ default_label # EncodedLabel
        THEN rfl_result = LabelMismatchError
        ELSE /\ rfl_result # LabelMismatchError
             /\ rfl_result.kind = "TrueFalseInstance" =>
                   rfl_result.label = (IF EncodesLabel THEN EncodedLabel ELSE default_label)

C4_Witness ==
    /\ line = <<"1", TAB, "a", TAB, "1">>
    /\ default_label = Some(FALSE)
    /\ rfl_result = LabelMismatchError

\* C5: a 2-field record with a decimal field 0 is read as [index][text] with
\* the default label whatever field 1 is; with field 0 not decimal and field 1
\* decimal it is read as [text][label] with no index (or rejected for a label
\* mismatch); with neither decimal, or with more than 3 fields, the call
\* fails with the 'Unrecognized line format' error naming the line.
C5_ShapeDispatch ==
    Read =>
        LET fields == split(line)
        IN  /\ (Len(fields) = 2 /\ isdecimal(fields[1])) =>
                  rfl_result = TrueFalseInstance(fields[2], default_label, Some(int(fields[1])))
            /\ (Len(fields) = 2 /\ ~isdecimal(fields[1]) /\ isdecimal(fields[2])) =>
                  \/ rfl_result = TrueFalseInstance(fields[1], EncodedLabel, None)
                  \/ rfl_result = LabelMismatchError /\ default_label # None
            /\ (Len(fields) = 2 /\ ~isdecimal(fields[1]) /\ ~isdecimal(fields[2])) =>
                  rfl_result = FormatError(line)
            /\ Len(fields) > 3 => rfl_result = FormatError(line)

C5_Witness ==
    /\ line = <<"1", TAB, "0">>
    /\ rfl_result = TrueFalseInstance(<<"0">>, default_label, Some(1))
    /\ default_label = Some(TRUE)

----------------------------------------------------------------------------
(* Property of QuestionInstance.__init__ (specification QuestionSpec).      *)

TrueOptions == {i \in 1..Len(options) : options[i].label = Some(TRUE)}

\* C6: construction fails when zero or more than one option has label true;
\* with exactly one, at 0-based position k, it succeeds with label k and no
\* index; so every QuestionInstance has exactly one true option, at `label`.
C6_ExactlyOneTrue ==
    q_result.kind # "pending" =>
        /\ Cardinality(TrueOptions) # 1 => q_result.kind = "AssertionError"
        /\ Cardinality(TrueOptions) = 1 =>
              /\ q_result.kind = "QuestionInstance"
              /\ TrueOptions = {q_result.label + 1}
              /\ q_result.index = None
              /\ q_result.options = options

C6_Witness ==
    /\ q_result.kind = "QuestionInstance"
    /\ q_result.label = 2
    /\ Len(options) = 3

----------------------------------------------------------------------------
(* Property of pad (specification PadSpec).                                 *)

\* C7: pad to length n turns a sequence w of length m into a sequence of
\* length n: n-m zeros then w when m < n, the last n elements of w when
\* m > n, w itself when m = n; padding again to n changes nothing.
C7_PadContract ==
    [][\A n \in 0..MaxPad :
          PadTo(n) =>
              LET w == word_indices
                  m == Len(word_indices)
              IN  /\ Len(word_indices') = n
                  /\ m < n => word_indices' =
                                 [i \in 1..n |-> IF i <= n - m THEN 0 ELSE w[i - (n - m)]]
                  /\ m > n => word_indices' = [i \in 1..n |-> w[m - n + i]]
                  /\ m = n => word_indices' = w
                  /\ pad(word_indices', n) = word_indices']_vars

C7_Witness == requested = Some(5) /\ word_indices = <<0, 0, 1, 2, 3>>

----------------------------------------------------------------------------
(* Property of BackgroundInstance (specification BackgroundSpec).           *)

\* The token list of the i-th background sentence.
SentenceTokens(i) == tokenize(lower(background[i]))

\* The concatenation of the first n sentences' token lists.
RECURSIVE TokensUpTo(_)
TokensUpTo(n) == IF n = 0 THEN <<>> ELSE TokensUpTo(n - 1) \o SentenceTokens(n)

\* C8: words() is the wrapped instance's words followed by each lower-cased
\* background sentence's tokens, sentence by sentence in background order;
\* to_indexed_instance gives one index list per background sentence, in
\* order, each as long as that sentence's token list.
C8_BackgroundComposition ==
    /\ bg_words # None =>
          bg_words[1] = tokenize(lower(instance_text)) \o TokensUpTo(Len(background))
    /\ bg_indexed # None =>
          LET bi == bg_indexed[1].background_indices
          IN  /\ Len(bi) = Len(background)
              /\ \A i \in 1..Len(bi) :
                    /\ Len(bi[i]) = Len(SentenceTokens(i))
                    /\ \A j \in 1..Len(bi[i]) :
                          bi[i][j] = get_word_index(BGVocab, SentenceTokens(i)[j])

C8_Witness ==
    /\ bg_words # None /\ bg_indexed # None
    /\ background = << <<"A", " ", "A">>, <<"A", "A">> >>
    /\ Len(bg_words[1]) > 3

====
